---------------------------- MODULE Spec2Model ----------------------------
(***************************************************************************)
(* ddl_json: compressObj (the tree compactor) and parseDDL (the line       *)
(* oriented DDL state machine).                                            *)
(*                                                                         *)
(* JavaScript values are modelled with a heap.  A value is a record        *)
(* [t, v, a]: t is the value's kind, v the text of a scalar, a the heap    *)
(* address of an array or object.  Two references are the same reference   *)
(* exactly when their addresses are equal.                                 *)
(***************************************************************************)
EXTENDS Naturals, Sequences, FiniteSets

VARIABLES
    heap,     \* the containers allocated so far, by address
    heap0,    \* the heap as it was before the latest call of compressObj
    input,    \* the value passed to compressObj
    result,   \* the value the call returned
    again,    \* the value compressObj returned for that result
    pc,       \* where the caller is
    ddlLines,     \* the lines of the text parseDDL has not processed yet
    state,        \* parseDDL's state, NONE or TABLE
    schemaName,   \* the active schema name
    currentTable, \* the table record being filled, or null
    warnings,     \* the table names console.warn was called with
    argName,      \* the dotted name passed to schemaTableColumn
    argExpected,  \* the expected format passed with it
    returned      \* the array schemaTableColumn returned, <<>> before the call

vars == <<heap, heap0, input, result, again, pc, ddlLines, state, schemaName,
          currentTable, warnings, argName, argExpected, returned>>

nameVars == <<argName, argExpected, returned>>

parseVars == <<ddlLines, state, schemaName, currentTable, warnings>>

-----------------------------------------------------------------------------
(* Bounds *)

\* The largest number of elements and entries, over all containers, of a
\* value built for compressObj.
MaxNodes == 3

\* The largest number of lines of a text made of any lines.
MaxLines == 3

\* The largest number of components of a dotted name passed to
\* schemaTableColumn.
MaxParts == 3

-----------------------------------------------------------------------------
(* Values *)

Str(s) == [t |-> "string", v |-> s, a |-> 0]

Num(s) == [t |-> "number", v |-> s, a |-> 0]

Bool(s) == [t |-> "boolean", v |-> s, a |-> 0]

Null == [t |-> "null", v |-> "", a |-> 0]

Undefined == [t |-> "undefined", v |-> "", a |-> 0]

Ref(n) == [t |-> "ref", v |-> "", a |-> n]

\* typeof x
TypeOf(x) == IF x.t \in {"ref", "null"} THEN "object" ELSE x.t

\* Array.isArray(x)
IsArray(h, x) == x.t = "ref" /\ h[x.a].kind = "array"

\* [] and {}: a container is its elements in order and, for an object, the
\* key of each element (Object.keys order is insertion order).
EmptyArray == [kind |-> "array", keys |-> <<>>, elems |-> <<>>]

EmptyObject == [kind |-> "object", keys |-> <<>>, elems |-> <<>>]

\* Push that puts x first (unshift).
Push_front(h, dst, x) == [h EXCEPT ![dst].elems = <<x>> \o @]

\* result.push(x)
Push(h, dst, x) == [h EXCEPT ![dst].elems = Append(@, x)]

\* The position of key k in a sequence of keys, 0 when it is no key of it.
IndexOf(keys, k) ==
    IF \E i \in 1..Len(keys) : keys[i] = k
      THEN CHOOSE i \in 1..Len(keys) : keys[i] = k
      ELSE 0

\* SetKey that leaves a key the object already has as it is.
SetKey_keepsFirst(h, dst, k, x) ==
    IF IndexOf(h[dst].keys, k) = 0
      THEN [h EXCEPT ![dst].keys = Append(@, k), ![dst].elems = Append(@, x)]
      ELSE h

\* obj[k] = x: an own key keeps its place, a new key goes last.
SetKey(h, dst, k, x) ==
    LET i == IndexOf(h[dst].keys, k)
    IN  IF i = 0
          THEN [h EXCEPT ![dst].keys = Append(@, k), ![dst].elems = Append(@, x)]
          ELSE [h EXCEPT ![dst].elems[i] = x]

-----------------------------------------------------------------------------
(* compressObj *)


\* keptElement without `element !== null`.
keptElement_keepsNull(element) ==
    element # Str("") /\ element # Undefined

\* keptElement as a truthiness test: 0 and false are left out too.
keptElement_truthy(element) ==
    element \notin {Str(""), Null, Undefined, Num("0"), Bool("false")}

\* element !== "" && element !== null && element !== undefined
keptElement(element) ==
    element # Str("") /\ element # Null /\ element # Undefined

\* value !== "" && value !== null && value !== undefined
keptValue(value) ==
    value # Str("") /\ value # Null /\ value # Undefined

\* removedElement as `delete input[i]`.
removedElement_deletes(h, src, i) == [h EXCEPT ![src].elems[i] = Undefined]

\* An element is left out: only `modified = true`, the input is not touched.
removedElement(h, src, i) == h

\* A key is left out: only `modified = true`, the input is not touched.
removedKey(h, src, i) == h

\* arrayReturn without `!modified`.
arrayReturn_lengthOnly(h, in, dst, modified) ==
    IF Len(h[dst].elems) = Len(h[in.a].elems)
      THEN in
      ELSE IF Len(h[dst].elems) > 0 THEN Ref(dst) ELSE Undefined

\* arrayReturn without the test for an empty result.
arrayReturn_keepsEmpty(h, in, dst, modified) ==
    IF Len(h[dst].elems) = Len(h[in.a].elems) /\ ~modified
      THEN in
      ELSE Ref(dst)

\* compressed.length === input.length && !modified
\*     ? input : (compressed.length > 0 ? compressed : undefined)
arrayReturn(h, in, dst, modified) ==
    IF Len(h[dst].elems) = Len(h[in.a].elems) /\ ~modified
      THEN in
      ELSE IF Len(h[dst].elems) > 0 THEN Ref(dst) ELSE Undefined

\* objectReturn without the test for an empty result.
objectReturn_keepsEmpty(h, in, dst, modified) ==
    IF Len(h[dst].keys) = Len(h[in.a].keys) /\ ~modified
      THEN in
      ELSE Ref(dst)

\* Object.keys(compressed).length === Object.keys(input).length && !modified
\*     ? input : (Object.keys(compressed).length > 0 ? compressed : undefined)
objectReturn(h, in, dst, modified) ==
    IF Len(h[dst].keys) = Len(h[in.a].keys) /\ ~modified
      THEN in
      ELSE IF Len(h[dst].keys) > 0 THEN Ref(dst) ELSE Undefined

\* primitiveReturn with "", null and undefined all returned as undefined.
primitiveReturn_falsey(in) == IF keptElement(in) THEN in ELSE Undefined

\* return input, for a scalar
primitiveReturn(in) == in

RECURSIVE compressObj(_, _)
RECURSIVE reduceElements(_, _, _, _, _, _)
RECURSIVE forKeys(_, _, _, _, _, _)

\* input.reduce((result, element) => ..., []): elements i..n of the array at
\* src, pushed to the array at dst; the heap and the flag `modified` after.
reduceElements(h, src, i, n, dst, modified) ==
    IF i > n
      THEN [heap |-> h, modified |-> modified]
      ELSE LET element == h[src].elems[i]
           IN  IF TypeOf(element) = "object" /\ element # Null
                 THEN LET r == compressObj(h, element)
                      IN  IF r.val # Undefined
                            THEN reduceElements(Push(r.heap, dst, r.val), src,
                                     i + 1, n, dst,
                                     modified \/ r.val # element)
                            ELSE reduceElements(removedElement(r.heap, src, i),
                                     src, i + 1, n, dst, TRUE)
                 ELSE IF keptElement(element)
                        THEN reduceElements(Push(h, dst, element), src, i + 1,
                                 n, dst, modified)
                        ELSE reduceElements(removedElement(h, src, i), src,
                                 i + 1, n, dst, TRUE)

\* for (const key of _keys): keys i..Len(ks) of the object at src, set in the
\* object at dst.
forKeys(h, src, ks, i, dst, modified) ==
    IF i > Len(ks)
      THEN [heap |-> h, modified |-> modified]
      ELSE LET key == ks[i]
               value == h[src].elems[IndexOf(h[src].keys, key)]
           IN  IF TypeOf(value) = "object" /\ value # Null
                 THEN LET r == compressObj(h, value)
                      IN  IF r.val # Undefined
                            THEN forKeys(SetKey(r.heap, dst, key, r.val), src,
                                     ks, i + 1, dst,
                                     modified \/ r.val # value)
                            ELSE forKeys(removedKey(r.heap, src, i), src, ks,
                                     i + 1, dst, TRUE)
                 ELSE IF keptValue(value)
                        THEN forKeys(SetKey(h, dst, key, value), src, ks,
                                 i + 1, dst, modified)
                        ELSE forKeys(removedKey(h, src, i), src, ks, i + 1,
                                 dst, TRUE)

\* compressObj(input): the returned value and the heap after the call.
compressObj(h, in) ==
    IF IsArray(h, in)
      THEN IF Len(h[in.a].elems) = 0
             THEN [heap |-> h, val |-> Undefined]
             ELSE LET dst == Len(h) + 1
                      r == reduceElements(Append(h, EmptyArray), in.a, 1,
                               Len(h[in.a].elems), dst, FALSE)
                  IN  [heap |-> r.heap,
                       val |-> arrayReturn(r.heap, in, dst, r.modified)]
      ELSE IF TypeOf(in) = "object" /\ in # Null
             THEN LET dst == Len(h) + 1
                      h1 == Append(h, EmptyObject)
                      _keys == h[in.a].keys
                  IN  IF Len(_keys) = 0
                        THEN [heap |-> h1, val |-> Undefined]
                        ELSE LET r == forKeys(h1, in.a, _keys, 1, dst, FALSE)
                             IN  [heap |-> r.heap,
                                  val |-> objectReturn(r.heap, in, dst,
                                              r.modified)]
             ELSE [heap |-> h, val |-> primitiveReturn(in)]

-----------------------------------------------------------------------------
(* Text.  A line is a sequence of tokens: a token is a run of word          *)
(* characters (\w+), one blank, one punctuation character, or the comment   *)
(* delimiter "--".  The text of a token sequence is its concatenation.      *)

\* The tokens that are not runs of word characters.
NonWord == {" ", "(", ")", ",", ".", "'", ":", ";", "--", "="}

\* \w+
IsWord(tok) == tok # "" /\ tok \notin NonWord

\* The upper-case form of the words that are written in lower or mixed case
\* in the lines below (the regular expressions carry the flag i).
UpperOf ==
    [create |-> "CREATE", schema |-> "SCHEMA", table |-> "TABLE",
     not |-> "NOT", null |-> "NULL", Not |-> "NOT", Null |-> "NULL",
     comment |-> "COMMENT", on |-> "ON", column |-> "COLUMN", is |-> "IS"]

Upper(tok) == IF tok \in DOMAIN UpperOf THEN UpperOf[tok] ELSE tok

\* The token at place i, "" past the end.
At(l, i) == IF i \in 1..Len(l) THEN l[i] ELSE ""

RECURSIVE Join(_)
\* The text of a token sequence.
Join(l) == IF l = <<>> THEN "" ELSE Head(l) \o Join(Tail(l))

RECURSIVE SkipSpaces(_, _)
\* \s*: the first place from i on that holds no blank.
SkipSpaces(l, i) == IF At(l, i) = " " THEN SkipSpaces(l, i + 1) ELSE i

RECURSIVE SkipSpacesBack(_, _)
SkipSpacesBack(l, i) == IF At(l, i) = " " THEN SkipSpacesBack(l, i - 1) ELSE i

\* String.prototype.trim
Trim(l) == SubSeq(l, SkipSpaces(l, 1), SkipSpacesBack(l, Len(l)))

RECURSIVE SplitOn(_, _)
\* String.prototype.split(sep)
SplitOn(l, sep) ==
    IF \E i \in 1..Len(l) : l[i] = sep
      THEN LET i == CHOOSE i \in 1..Len(l) :
                        l[i] = sep /\ \A j \in 1..(i - 1) : l[j] # sep
           IN  <<SubSeq(l, 1, i - 1)>> \o SplitOn(SubSeq(l, i + 1, Len(l)), sep)
      ELSE <<l>>

\* String.prototype.replace(word, ''): the first occurrence is taken out.
RemoveFirst(l, word) ==
    IF \E i \in 1..Len(l) : l[i] = word
      THEN LET i == CHOOSE i \in 1..Len(l) :
                        l[i] = word /\ \A j \in 1..(i - 1) : l[j] # word
           IN  SubSeq(l, 1, i - 1) \o SubSeq(l, i + 1, Len(l))
      ELSE l

\* type.replace(/,$/, "")
RemoveTrailingComma(l) ==
    IF At(l, Len(l)) = "," THEN SubSeq(l, 1, Len(l) - 1) ELSE l

\* s.match(/NOT\s+NULL/), without the flag i
HasNotNull(l) ==
    \E i \in 1..Len(l) :
        /\ l[i] = "NOT"
        /\ At(l, i + 1) = " "
        /\ At(l, SkipSpaces(l, i + 1)) = "NULL"

RECURSIVE Keywords(_, _, _)
\* K1\s+K2\s+ ... Kn\s+ from place i, letter case ignored: the place after
\* it, 0 when it does not match.
Keywords(l, i, ks) ==
    IF ks = <<>>
      THEN i
      ELSE IF Upper(At(l, i)) = Head(ks) /\ At(l, i + 1) = " "
             THEN Keywords(l, SkipSpaces(l, i + 1), Tail(ks))
             ELSE 0

\* \w+(\.\w+){n-1} from place i: the place of its last token, 0 when it does
\* not match.
Dotted(l, i, n) ==
    IF /\ i > 0
       /\ \A k \in 0..(n - 1) : IsWord(At(l, i + 2 * k))
       /\ \A k \in 1..(n - 1) : At(l, i + 2 * k - 1) = "."
      THEN i + 2 * (n - 1)
      ELSE 0

RECURSIVE RunEnd(_, _, _)
\* [\w...]+ from place i, the class holding the words and the tokens of
\* `more`: the place of the last token of the longest run, i - 1 when there
\* is none.
RunEnd(l, i, more) ==
    IF IsWord(At(l, i)) \/ (At(l, i) # "" /\ At(l, i) \in more)
      THEN RunEnd(l, i + 1, more)
      ELSE i - 1

NoMatch == [ok |-> FALSE]

\* /^\s*CREATE\s+SCHEMA\s+(\w+)/i
schemaRegex(l) ==
    LET i == Keywords(l, SkipSpaces(l, 1), <<"CREATE", "SCHEMA">>)
    IN  IF i # 0 /\ IsWord(At(l, i))
          THEN [ok |-> TRUE, g1 |-> l[i]]
          ELSE NoMatch

\* /^\s*CREATE\s+SEQUENCE\s+(\w+\.\w+)/i
sequenceRegex(l) ==
    LET i == Keywords(l, SkipSpaces(l, 1), <<"CREATE", "SEQUENCE">>)
        e == Dotted(l, i, 2)
    IN  IF e # 0 THEN [ok |-> TRUE, g1 |-> SubSeq(l, i, e)] ELSE NoMatch

\* /^\s*CREATE\s+TABLE\s+(\w+\.\w+)/i
tableRegex(l) ==
    LET i == Keywords(l, SkipSpaces(l, 1), <<"CREATE", "TABLE">>)
        e == Dotted(l, i, 2)
    IN  IF e # 0 THEN [ok |-> TRUE, g1 |-> SubSeq(l, i, e)] ELSE NoMatch

\* /^\s*CONSTRAINT\s+(\w+)\s+PRIMARY\s+KEY\s+\(([\w, ]+)\)/i
primaryKeyRegex(l) ==
    LET i == Keywords(l, SkipSpaces(l, 1), <<"CONSTRAINT">>)
        j == IF i # 0 /\ IsWord(At(l, i)) /\ At(l, i + 1) = " "
               THEN Keywords(l, SkipSpaces(l, i + 1), <<"PRIMARY", "KEY">>)
               ELSE 0
        e == RunEnd(l, j + 1, {",", " "})
    IN  IF j # 0 /\ At(l, j) = "(" /\ e > j /\ At(l, e + 1) = ")"
          THEN [ok |-> TRUE, g1 |-> l[i], g2 |-> SubSeq(l, j + 1, e)]
          ELSE NoMatch

\* /^\s*CONSTRAINT\s+(\w+)\s+FOREIGN\s+KEY\s*\(([\w, ]+)\)(.*)/i
foreignKeyRegex(l) ==
    LET i == Keywords(l, SkipSpaces(l, 1), <<"CONSTRAINT">>)
        k == IF i # 0 /\ IsWord(At(l, i)) /\ At(l, i + 1) = " "
               THEN Keywords(l, SkipSpaces(l, i + 1), <<"FOREIGN">>)
               ELSE 0
        j == IF k # 0 /\ Upper(At(l, k)) = "KEY"
               THEN SkipSpaces(l, k + 1)
               ELSE 0
        e == RunEnd(l, j + 1, {",", " "})
    IN  IF j # 0 /\ At(l, j) = "(" /\ e > j /\ At(l, e + 1) = ")"
          THEN [ok |-> TRUE, g1 |-> l[i], g2 |-> SubSeq(l, j + 1, e),
                g3 |-> SubSeq(l, e + 2, Len(l))]
          ELSE NoMatch

\* INDEX\s+(\w+)\s+ON\s+(\w+\.\w+) from place i: the place of the index name,
\* 0 when it does not match.
IndexTail(l, i) ==
    LET k == IF i # 0 THEN Keywords(l, i, <<"INDEX">>) ELSE 0
        n == IF k # 0 /\ IsWord(At(l, k)) /\ At(l, k + 1) = " "
               THEN Keywords(l, SkipSpaces(l, k + 1), <<"ON">>)
               ELSE 0
    IN  IF Dotted(l, n, 2) # 0 THEN k ELSE 0

\* /^\s*CREATE\s+(UNIQUE )?INDEX\s+(\w+)\s+ON\s+(\w+\.\w+)/i
indexRegex(l) ==
    LET i == Keywords(l, SkipSpaces(l, 1), <<"CREATE">>)
        u == IF i # 0 /\ Upper(At(l, i)) = "UNIQUE" /\ At(l, i + 1) = " "
               THEN IndexTail(l, i + 2)
               ELSE 0
        k == IndexTail(l, i)
    IN  IF u # 0
          THEN [ok |-> TRUE, g1 |-> <<l[i], " ">>, g2 |-> l[u]]
          ELSE IF k # 0
                 THEN [ok |-> TRUE, g1 |-> <<>>, g2 |-> l[k]]
                 ELSE NoMatch

\* /^\s*COMMENT\s+ON\s+COLUMN\s+(\w+\.\w+\.\w+)\s+IS\s+'(.+)'/i: (.+) is
\* greedy, it ends before the last quote of the line.
commentRegex(l) ==
    LET i == Keywords(l, SkipSpaces(l, 1), <<"COMMENT", "ON", "COLUMN">>)
        e == Dotted(l, i, 3)
        n == IF e # 0 /\ At(l, e + 1) = " "
               THEN Keywords(l, SkipSpaces(l, e + 1), <<"IS">>)
               ELSE 0
        closing == {q \in (n + 2)..Len(l) : l[q] = "'"}
    IN  IF n # 0 /\ At(l, n) = "'" /\ closing # {}
          THEN LET q == CHOOSE q \in closing : \A r \in closing : r <= q
               IN  [ok |-> TRUE, g1 |-> SubSeq(l, i, e),
                    g2 |-> SubSeq(l, n + 1, q - 1)]
          ELSE NoMatch

\* (\s+NOT NULL|\s+NULL)?, from place k, by alternative: the place of the
\* comma that ends the match, 0 when the alternative does not match there.
ColumnTail(l, k, alt) ==
    LET m == SkipSpaces(l, k)
    IN  CASE alt = "NOT NULL" ->
               IF /\ m > k
                  /\ Upper(At(l, m)) = "NOT" /\ At(l, m + 1) = " "
                  /\ Upper(At(l, m + 2)) = "NULL" /\ At(l, m + 3) = ","
                 THEN m + 3 ELSE 0
          [] alt = "NULL" ->
               IF m > k /\ Upper(At(l, m)) = "NULL" /\ At(l, m + 1) = ","
                 THEN m + 1 ELSE 0
          [] OTHER -> IF At(l, k) = "," THEN k ELSE 0

\* /^\s*(\w+)\s+([\w\(\),\.\'\:]+)(.*?)(\s+NOT NULL|\s+NULL)?,/i: the type is
\* greedy (the longest that lets the rest match), the text after it lazy
\* (the shortest), and the last group is taken when it matches.
columnRegex(l) ==
    LET s == SkipSpaces(l, 1)
        i == IF IsWord(At(l, s)) /\ At(l, s + 1) = " "
               THEN SkipSpaces(l, s + 1)
               ELSE 0
        last == IF i # 0
                  THEN RunEnd(l, i, {"(", ")", ",", ".", "'", ":"})
                  ELSE 0
        \* <<te, de, alt>>: the type ends at te, the text after it at de
        ways == {w \in (i..last) \X (i..Len(l)) \X {"NOT NULL", "NULL", ""} :
                    w[2] >= w[1] /\ ColumnTail(l, w[2] + 1, w[3]) # 0}
        Better(a, b) ==
            \/ a[1] > b[1]
            \/ a[1] = b[1] /\ a[2] < b[2]
            \/ a[1] = b[1] /\ a[2] = b[2] /\ a[3] = "NOT NULL"
            \/ a[1] = b[1] /\ a[2] = b[2] /\ a[3] = "NULL" /\ b[3] = ""
    IN  IF i # 0 /\ last >= i /\ ways # {}
          THEN LET w == CHOOSE w \in ways :
                            \A x \in ways \ {w} : Better(w, x)
                   c == ColumnTail(l, w[2] + 1, w[3])
               IN  [ok |-> TRUE, g1 |-> l[s], g2 |-> SubSeq(l, i, w[1]),
                    g3 |-> SubSeq(l, w[1] + 1, w[2]),
                    g4 |-> IF w[3] = "" THEN <<>>
                           ELSE SubSeq(l, w[2] + 1, c - 1),
                    has4 |-> w[3] # ""]
          ELSE NoMatch

-----------------------------------------------------------------------------
(* parseDDL *)

\* const SCHEMA = 0, TABLE = 1, COLUMN = 2
SCHEMA == 0

TABLE == 1

COLUMN == 2

\* const jsonResult = []; const tableLookup = {}: the first two containers
\* parseDDL allocates.
jsonResult == Ref(1)

tableLookup == Ref(2)

\* The properties every object inherits from Object.prototype.
ObjectPrototypeKeys ==
    {"constructor", "toString", "toLocaleString", "valueOf", "hasOwnProperty",
     "isPrototypeOf", "propertyIsEnumerable", "__proto__"}

\* x[key]: an own property, else an inherited one (a function), else
\* undefined.
Get(h, x, key) ==
    IF x.t = "ref"
      THEN IF IndexOf(h[x.a].keys, key) # 0
             THEN h[x.a].elems[IndexOf(h[x.a].keys, key)]
             ELSE IF key \in ObjectPrototypeKeys
                    THEN [t |-> "function", v |-> key, a |-> 0]
                    ELSE Undefined
      ELSE Undefined

\* if (x)
Truthy(x) == x \notin {Undefined, Null, Str(""), Num("0"), Bool("false")}

\* arr[i], i counted from 0
Nth(arr, i) == IF i + 1 \in 1..Len(arr) THEN arr[i + 1] ELSE Undefined

\* The texts of a sequence of token sequences.
Texts(parts) == [i \in 1..Len(parts) |-> Str(Join(parts[i]))]

\* schemaTableColumn(name, expected): name is given by its tokens.
schemaTableColumn(name, expected) ==
    LET sn == Texts(SplitOn(name, "."))
        len == Len(sn)
    IN  IF len = 0 THEN <<Str(""), Str(""), Str("")>>
        ELSE IF expected = "S.T" /\ len = 1 THEN <<Str("")>> \o sn
        ELSE IF expected = "S.T" /\ len = 2 THEN sn
        ELSE IF expected = "T.C" /\ len = 1 THEN <<Str(""), Str("")>> \o sn
        ELSE IF expected = "T.C" /\ len = 2 THEN <<Str("")>> \o sn
        ELSE sn

\* A new object with the given keys and values, at the next free address.
NewObject(h, keys, elems) ==
    Append(h, [kind |-> "object", keys |-> keys, elems |-> elems])

\* A new array with the given elements.
NewArray(h, elems) ==
    Append(h, [kind |-> "array", keys |-> <<>>, elems |-> elems])

\* const [mainPart, altComment] = rawLine.split("--").map((part) => part?.trim())
Parts(rawLine) ==
    LET parts == SplitOn(rawLine, "--")
    IN  [i \in 1..Len(parts) |-> Trim(parts[i])]

mainPart(rawLine) == Parts(rawLine)[1]

altComment(rawLine) ==
    IF Len(Parts(rawLine)) >= 2
      THEN Str(Join(Parts(rawLine)[2]))
      ELSE Undefined

\* ColumnNames without the trim of each name.
ColumnNames_untrimmed(g2) ==
    LET parts == SplitOn(g2, ",")
    IN  [i \in 1..Len(parts) |-> Str(Join(parts[i]))]

\* pk[2].split(",").map((col) => col.trim())
ColumnNames(g2) ==
    LET parts == SplitOn(g2, ",")
    IN  [i \in 1..Len(parts) |-> Str(Join(Trim(parts[i])))]

\* The forEach callback is running on the next line, which has main content.
AtLine ==
    /\ pc = "parse"
    /\ ddlLines # <<>>
    /\ mainPart(Head(ddlLines)) # <<>>

line == mainPart(Head(ddlLines))

\* The callback returns: the next line is the one after.
NextLine == ddlLines' = Tail(ddlLines)

\* if (!mainPart || mainPart.trim() === "") return;
BlankLine ==
    /\ pc = "parse"
    /\ ddlLines # <<>>
    /\ mainPart(Head(ddlLines)) = <<>>
    /\ NextLine
    /\ UNCHANGED <<heap, heap0, input, result, again, pc, state, schemaName,
                   currentTable, warnings>>
    /\ UNCHANGED nameVars

\* case states.NONE: if (line.match(schemaRegex))
SchemaLine ==
    /\ AtLine
    /\ state = "NONE"
    /\ schemaRegex(line).ok
    /\ schemaName' = Str(schemaRegex(line).g1)
    /\ NextLine
    /\ UNCHANGED <<heap, heap0, input, result, again, pc, state, currentTable,
                   warnings>>
    /\ UNCHANGED nameVars

\* else if (line.match(sequenceRegex))
SequenceLine ==
    /\ AtLine
    /\ state = "NONE"
    /\ ~schemaRegex(line).ok
    /\ sequenceRegex(line).ok
    /\ LET sequenceName == sequenceRegex(line).g1
           h1 == NewObject(heap, <<"schema", "type", "name", "altComment">>,
                     <<schemaName, Str("sequence"),
                       Nth(schemaTableColumn(sequenceName, "S.T"), TABLE),
                       altComment(Head(ddlLines))>>)
       IN  heap' = Push(h1, jsonResult.a, Ref(Len(h1)))
    /\ NextLine
    /\ UNCHANGED <<heap0, input, result, again, pc, state, schemaName,
                   currentTable, warnings>>
    /\ UNCHANGED nameVars

\* TableLine that takes the schema from the prefix of the table's name.
TableLine_schemaFromName ==
    /\ AtLine
    /\ state = "NONE"
    /\ ~schemaRegex(line).ok
    /\ ~sequenceRegex(line).ok
    /\ tableRegex(line).ok
    /\ LET fullTableName == tableRegex(line).g1
           name == Nth(schemaTableColumn(fullTableName, "S.T"), TABLE)
           t == Len(heap) + 1
           h1 == NewObject(heap,
                     <<"schema", "type", "name", "columns", "indexes",
                       "constraints", "comments", "altComment">>,
                     <<Nth(schemaTableColumn(fullTableName, "S.T"), SCHEMA),
                       Str("table"), name, Ref(t + 1), Ref(t + 2),
                       Ref(t + 3), Ref(t + 4), altComment(Head(ddlLines))>>)
           h2 == Append(Append(Append(Append(h1, EmptyArray), EmptyArray),
                     EmptyArray), EmptyObject)
       IN  /\ currentTable' = Ref(t)
           /\ heap' = SetKey(h2, tableLookup.a, name.v, Ref(t))
    /\ state' = "TABLE"
    /\ NextLine
    /\ UNCHANGED <<heap0, input, result, again, pc, schemaName, warnings>>
    /\ UNCHANGED nameVars

\* else if (line.match(tableRegex))
TableLine ==
    /\ AtLine
    /\ state = "NONE"
    /\ ~schemaRegex(line).ok
    /\ ~sequenceRegex(line).ok
    /\ tableRegex(line).ok
    /\ LET fullTableName == tableRegex(line).g1
           name == Nth(schemaTableColumn(fullTableName, "S.T"), TABLE)
           t == Len(heap) + 1
           h1 == NewObject(heap,
                     <<"schema", "type", "name", "columns", "indexes",
                       "constraints", "comments", "altComment">>,
                     <<schemaName, Str("table"), name, Ref(t + 1), Ref(t + 2),
                       Ref(t + 3), Ref(t + 4), altComment(Head(ddlLines))>>)
           h2 == Append(Append(Append(Append(h1, EmptyArray), EmptyArray),
                     EmptyArray), EmptyObject)
       IN  /\ currentTable' = Ref(t)
           /\ heap' = SetKey(h2, tableLookup.a, name.v, Ref(t))
    /\ state' = "TABLE"
    /\ NextLine
    /\ UNCHANGED <<heap0, input, result, again, pc, schemaName, warnings>>
    /\ UNCHANGED nameVars

\* const table = tableLookup[tableName];
\* if (table) { table.comments[columnName] = text } else { console.warn(...) }
\* Setting a property of undefined (table.comments, when table is no table
\* record) throws a TypeError, which leaves parseDDL.
SetComment(text) ==
    LET fullColumnName == commentRegex(line).g1
        stc == schemaTableColumn(fullColumnName, "S.T.C")
        tableName == Nth(stc, 1)
        columnName == Nth(stc, 2)
        table == Get(heap, tableLookup, tableName.v)
        comments == Get(heap, table, "comments")
    IN  IF Truthy(table)
          THEN IF comments.t = "ref"
                 THEN /\ heap' = SetKey(heap, comments.a, columnName.v, text)
                      /\ NextLine
                      /\ UNCHANGED <<pc, warnings>>
                 ELSE /\ pc' = "threw"
                      /\ UNCHANGED <<heap, ddlLines, warnings>>
          ELSE /\ warnings' = Append(warnings, tableName)
               /\ NextLine
               /\ UNCHANGED <<heap, pc>>

\* else if (line.match(commentRegex)), outside a table definition:
\* table.comments[columnName] = comment.trim()
CommentLineOutsideTable ==
    /\ AtLine
    /\ state = "NONE"
    /\ ~schemaRegex(line).ok
    /\ ~sequenceRegex(line).ok
    /\ ~tableRegex(line).ok
    /\ commentRegex(line).ok
    /\ SetComment(Str(Join(Trim(commentRegex(line).g2))))
    /\ UNCHANGED <<heap0, input, result, again, state, schemaName,
                   currentTable>>
    /\ UNCHANGED nameVars

\* case states.TABLE: if (line.match(primaryKeyRegex))
PrimaryKeyLine ==
    /\ AtLine
    /\ state = "TABLE"
    /\ primaryKeyRegex(line).ok
    /\ LET pk == primaryKeyRegex(line)
           h1 == NewArray(heap, ColumnNames(pk.g2))
           h2 == NewObject(h1, <<"type", "index_name", "columns">>,
                     <<Str("primary_key"), Str(pk.g1), Ref(Len(h1))>>)
       IN  heap' = Push(h2, Get(heap, currentTable, "constraints").a,
                       Ref(Len(h2)))
    /\ NextLine
    /\ UNCHANGED <<heap0, input, result, again, pc, state, schemaName,
                   currentTable, warnings>>
    /\ UNCHANGED nameVars

\* else if (line.match(foreignKeyRegex))
ForeignKeyLine ==
    /\ AtLine
    /\ state = "TABLE"
    /\ ~primaryKeyRegex(line).ok
    /\ foreignKeyRegex(line).ok
    /\ LET fk == foreignKeyRegex(line)
           h1 == NewArray(heap, ColumnNames(fk.g2))
           h2 == NewObject(h1, <<"type", "index_name", "columns", "rule">>,
                     <<Str("foreign_key"), Str(fk.g1), Ref(Len(h1)),
                       Str(Join(fk.g3))>>)
       IN  heap' = Push(h2, Get(heap, currentTable, "constraints").a,
                       Ref(Len(h2)))
    /\ NextLine
    /\ UNCHANGED <<heap0, input, result, again, pc, state, schemaName,
                   currentTable, warnings>>
    /\ UNCHANGED nameVars

\* IndexLine without the test of the UNIQUE group: every index is a btree.
IndexLine_btree ==
    /\ AtLine
    /\ state = "TABLE"
    /\ ~primaryKeyRegex(line).ok
    /\ ~foreignKeyRegex(line).ok
    /\ indexRegex(line).ok
    /\ LET indexName == indexRegex(line).g2
           h1 == NewObject(heap, <<"name", "type", "columns">>,
                     <<Str(indexName), Str("btree"), Ref(Len(heap) + 2)>>)
           h2 == Append(h1, EmptyArray)
       IN  heap' = Push(h2, Get(heap, currentTable, "indexes").a,
                       Ref(Len(h1)))
    /\ NextLine
    /\ UNCHANGED <<heap0, input, result, again, pc, state, schemaName,
                   currentTable, warnings>>
    /\ UNCHANGED nameVars

\* else if (line.match(indexRegex))
IndexLine ==
    /\ AtLine
    /\ state = "TABLE"
    /\ ~primaryKeyRegex(line).ok
    /\ ~foreignKeyRegex(line).ok
    /\ indexRegex(line).ok
    /\ LET unique == indexRegex(line).g1
           indexName == indexRegex(line).g2
           h1 == NewObject(heap, <<"name", "type", "columns">>,
                     <<Str(indexName),
                       IF unique # <<>> THEN Str("unique") ELSE Str("btree"),
                       Ref(Len(heap) + 2)>>)
           h2 == Append(h1, EmptyArray)
       IN  heap' = Push(h2, Get(heap, currentTable, "indexes").a,
                       Ref(Len(h1)))
    /\ NextLine
    /\ UNCHANGED <<heap0, input, result, again, pc, state, schemaName,
                   currentTable, warnings>>
    /\ UNCHANGED nameVars

\* else if (line.match(commentRegex)), inside a table definition:
\* table.comments[columnName] = comment
CommentLineInTable ==
    /\ AtLine
    /\ state = "TABLE"
    /\ ~primaryKeyRegex(line).ok
    /\ ~foreignKeyRegex(line).ok
    /\ ~indexRegex(line).ok
    /\ commentRegex(line).ok
    /\ SetComment(Str(Join(commentRegex(line).g2)))
    /\ UNCHANGED <<heap0, input, result, again, state, schemaName,
                   currentTable>>
    /\ UNCHANGED nameVars

\* line.trim().startsWith(");")
IsClose(l) == At(Trim(l), 1) = ")" /\ At(Trim(l), 2) = ";"

\* CloseLine without currentTable = null.
CloseLine_keepsTable ==
    /\ AtLine
    /\ state = "TABLE"
    /\ ~primaryKeyRegex(line).ok
    /\ ~foreignKeyRegex(line).ok
    /\ ~indexRegex(line).ok
    /\ ~commentRegex(line).ok
    /\ IsClose(line)
    /\ heap' = Push(heap, jsonResult.a, currentTable)
    /\ state' = "NONE"
    /\ NextLine
    /\ UNCHANGED <<heap0, input, result, again, pc, schemaName, warnings,
                   currentTable>>
    /\ UNCHANGED nameVars

\* else if (line.trim().startsWith(");")): end of table definition
CloseLine ==
    /\ AtLine
    /\ state = "TABLE"
    /\ ~primaryKeyRegex(line).ok
    /\ ~foreignKeyRegex(line).ok
    /\ ~indexRegex(line).ok
    /\ ~commentRegex(line).ok
    /\ IsClose(line)
    /\ heap' = Push(heap, jsonResult.a, currentTable)
    /\ currentTable' = Null
    /\ state' = "NONE"
    /\ NextLine
    /\ UNCHANGED <<heap0, input, result, again, pc, schemaName, warnings>>
    /\ UNCHANGED nameVars

\* const isNotNull = !!(notNull || _dflt || '').trim().match(/NOT\s+NULL/)
isNotNull(m) ==
    HasNotNull(Trim(IF m.has4 /\ m.g4 # <<>> THEN m.g4 ELSE m.g3))

\* const defaultVal = (!isNotNull ? (_dflt || '').replace('DEFAULT', '').trim()
\*                                : undefined)
defaultVal(m) ==
    IF ~isNotNull(m)
      THEN Str(Join(Trim(RemoveFirst(m.g3, "DEFAULT"))))
      ELSE Undefined

\* else if (line.match(columnRegex))
ColumnLine ==
    /\ AtLine
    /\ state = "TABLE"
    /\ ~primaryKeyRegex(line).ok
    /\ ~foreignKeyRegex(line).ok
    /\ ~indexRegex(line).ok
    /\ ~commentRegex(line).ok
    /\ ~IsClose(line)
    /\ columnRegex(line).ok
    /\ LET m == columnRegex(line)
           h1 == NewArray(heap,
                     IF isNotNull(m) THEN <<Str("NOT NULL")>> ELSE <<>>)
           h2 == NewObject(h1,
                     <<"name", "type", "constraints", "defaultVal",
                       "altComment">>,
                     <<Str(m.g1), Str(Join(RemoveTrailingComma(m.g2))),
                       Ref(Len(h1)), defaultVal(m),
                       altComment(Head(ddlLines))>>)
       IN  heap' = Push(h2, Get(heap, currentTable, "columns").a, Ref(Len(h2)))
    /\ NextLine
    /\ UNCHANGED <<heap0, input, result, again, pc, state, schemaName,
                   currentTable, warnings>>
    /\ UNCHANGED nameVars

\* No branch of the state's case takes the line.
NoBranch(l) ==
    /\ state = "NONE" =>
          /\ ~schemaRegex(l).ok
          /\ ~sequenceRegex(l).ok
          /\ ~tableRegex(l).ok
          /\ ~commentRegex(l).ok
    /\ state = "TABLE" =>
          /\ ~primaryKeyRegex(l).ok
          /\ ~foreignKeyRegex(l).ok
          /\ ~indexRegex(l).ok
          /\ ~commentRegex(l).ok
          /\ ~IsClose(l)
          /\ ~columnRegex(l).ok

\* UnmatchedLine where a line nothing matches ends the table definition.
UnmatchedLine_leavesTable ==
    /\ AtLine
    /\ NoBranch(line)
    /\ NextLine
    /\ state' = "NONE"
    /\ currentTable' = Null
    /\ UNCHANGED <<heap, heap0, input, result, again, pc, schemaName,
                   warnings>>
    /\ UNCHANGED nameVars

\* The line matches nothing: break.  A state that is neither NONE nor TABLE:
\* default: throw new Error(`Unknown state: ${state}`)
UnmatchedLine ==
    /\ AtLine
    /\ NoBranch(line)
    /\ IF state \in {"NONE", "TABLE"}
         THEN NextLine /\ pc' = pc
         ELSE pc' = "threw" /\ UNCHANGED ddlLines
    /\ UNCHANGED <<heap, heap0, input, result, again, state, schemaName,
                   currentTable, warnings>>
    /\ UNCHANGED nameVars

\* Return without the compactor: return jsonResult.
Return_uncompressed ==
    /\ pc = "parse"
    /\ ddlLines = <<>>
    /\ result' = jsonResult
    /\ heap0' = heap
    /\ input' = jsonResult
    /\ pc' = "returned"
    /\ UNCHANGED <<heap, again, ddlLines, state, schemaName, currentTable,
                   warnings>>
    /\ UNCHANGED nameVars

\* return objCompress(jsonResult)
Return ==
    /\ pc = "parse"
    /\ ddlLines = <<>>
    /\ LET r == compressObj(heap, jsonResult)
       IN  /\ heap' = r.heap
           /\ result' = r.val
    /\ heap0' = heap
    /\ input' = jsonResult
    /\ pc' = "returned"
    /\ UNCHANGED <<again, ddlLines, state, schemaName, currentTable, warnings>>
    /\ UNCHANGED nameVars

-----------------------------------------------------------------------------
(* The DDL texts parseDDL is run on *)

LSchema == <<"CREATE", " ", "SCHEMA", " ", "s", ";">>

LSequence ==
    <<"CREATE", " ", "SEQUENCE", " ", "s", ".", "seq", " ", "--", " ", "ids">>

LTable == <<"CREATE", " ", "TABLE", " ", "s", ".", "t", " ", "(">>

LColumnId == <<" ", " ", "id", " ", "int8", " ", "NOT", " ", "NULL", ",">>

LColumnName == <<" ", " ", "name", " ", "text", ",">>

LPrimaryKey ==
    <<" ", " ", "CONSTRAINT", " ", "t_pkey", " ", "PRIMARY", " ", "KEY", " ",
      "(", "a", ",", " ", "b", ")">>

LForeignKey ==
    <<" ", " ", "CONSTRAINT", " ", "t_fk", " ", "FOREIGN", " ", "KEY", " ",
      "(", "a", ")", " ", "REFERENCES", " ", "s", ".", "u", "(", "id", ")">>

LUniqueIndex ==
    <<"CREATE", " ", "UNIQUE", " ", "INDEX", " ", "t_idx", " ", "ON", " ",
      "s", ".", "t", " ", "(", "id", ")", ";">>

LClose == <<")", ";">>

LCommentName ==
    <<"COMMENT", " ", "ON", " ", "COLUMN", " ", "s", ".", "t", ".", "name",
      " ", "IS", " ", "'", "the", " ", "name", "'", ";">>

LCommentPadded ==
    <<"COMMENT", " ", "ON", " ", "COLUMN", " ", "s", ".", "t", ".", "id",
      " ", "IS", " ", "'", " ", "key", " ", "'", ";">>

LCommentConstructor ==
    <<"COMMENT", " ", "ON", " ", "COLUMN", " ", "s", ".", "constructor", ".",
      "id", " ", "IS", " ", "'", "x", "'", ";">>

LRemark == <<" ", "--", " ", "tables">>

\* The lines short texts are made of.
Lines ==
    {LSchema, LSequence, LTable, LColumnId, LColumnName, LPrimaryKey,
     LForeignKey, LUniqueIndex, LClose, LCommentName, LCommentPadded,
     LCommentConstructor, LRemark}

LSchemaLower == <<"create", " ", "schema", " ", "u">>

LTableOther == <<"CREATE", " ", "TABLE", " ", "x", ".", "t", " ", "(">>

LIndex ==
    <<"CREATE", " ", "INDEX", " ", "t_name", " ", "ON", " ", "s", ".", "t">>

LColumnAmount ==
    <<" ", " ", "amount", " ", "numeric", "(", "10", ",", "2", ")", " ",
      "DEFAULT", " ", "0", ",">>

LColumnQty ==
    <<" ", " ", "qty", " ", "int", " ", "DEFAULT", " ", "0", " ", "NOT", " ",
      "NULL", ",">>

LColumnFlag ==
    <<" ", " ", "flag", " ", "bool", " ", "not", " ", "null", ",">>

LColumnNullable ==
    <<" ", " ", "code", " ", "int", " ", "NOT", " ", "NULL", " ", "DEFAULT",
      " ", "NULL", ",">>

LColumnLast == <<" ", " ", "last_name", " ", "text", " ", "NOT", " ", "NULL">>

LDrop == <<"DROP", " ", "TABLE", " ", "s", ".", "t", ";">>

LCommentBlank ==
    <<"COMMENT", " ", "ON", " ", "COLUMN", " ", "s", ".", "t", ".", "name",
      " ", "IS", " ", "'", " ", "'", ";">>

LCommentUnknown ==
    <<"COMMENT", " ", "ON", " ", "COLUMN", " ", "s", ".", "u", ".", "name",
      " ", "IS", " ", "'", "n", "'", ";">>

LTablePerson ==
    <<"CREATE", " ", "TABLE", " ", "new_ops", ".", "person", " ", "(">>

LColumnPersonId ==
    <<" ", " ", " ", " ", "person_id", " ", "int8", " ", "NOT", " ", "NULL",
      ",">>

LColumnFirstName ==
    <<" ", " ", " ", " ", "first_name", " ", "text", " ", "NOT", " ", "NULL",
      ",">>

LColumnLastName ==
    <<" ", " ", " ", " ", "last_name", " ", "text", " ", "NOT", " ", "NULL">>

LCommentFirstName ==
    <<"COMMENT", " ", "ON", " ", "COLUMN", " ", "new_ops", ".", "person", ".",
      "first_name", " ", "IS", " ", "'", "Person", "'", "'", "s", " ",
      "first", " ", "name", "'", ";">>

LCommentLastName ==
    <<"COMMENT", " ", "ON", " ", "COLUMN", " ", "new_ops", ".", "person", ".",
      "last_name", " ", "IS", " ", "'", "Person", "'", "'", "s", " ",
      "last", " ", "name", "'", ";">>

\* The example of the README.
ReadmeText ==
    <<LTablePerson, LColumnPersonId, LColumnFirstName, LColumnLastName,
      LClose, <<>>, LCommentFirstName, LCommentLastName>>

\* CREATE SCHEMA s; CREATE TABLE s.t (id int8 NOT NULL, name text,);
\* COMMENT ON COLUMN s.t.name IS 'the name';
DocumentedText ==
    <<LSchema, LTable, LColumnId, LColumnName, LClose, LCommentName>>

\* A table with every kind of line in its body, a comment inside it, and a
\* statement that is not recognized.
FullTableText ==
    <<LSchemaLower, LSequence, LTable, LColumnAmount, LColumnQty, LColumnFlag,
      LColumnNullable, LColumnLast, LPrimaryKey, LForeignKey, LIndex,
      LUniqueIndex, LCommentPadded, LClose, LDrop, LCommentBlank>>

\* Two tables of the same name, and comments after each.
SameNameText ==
    <<LTable, LColumnName, LCommentUnknown, LClose, LCommentName, LSchema,
      LTableOther,
      LColumnId, LClose, LCommentPadded, LCommentName>>

\* Two empty tables of one name, in two schemas.
TwoTablesText == <<LTable, LClose, LTableOther, LClose>>

\* CREATE TABLE s.u (id int, name text); on one line
LTableInline ==
    <<"CREATE", " ", "TABLE", " ", "s", ".", "u", " ", "(", "id", " ", "int",
      ",", " ", "name", " ", "text", ")", ";">>

\* A one-line CREATE TABLE statement inside the definition of another table.
InlineTableText == <<LTable, LTableInline, LClose>>

\* An index on s.t inside the definition of new_ops.person, and an index
\* after the closing line.
IndexText == <<LTablePerson, LUniqueIndex, LClose, LIndex>>

TextExamples ==
    {DocumentedText, ReadmeText, FullTableText, SameNameText, TwoTablesText,
     InlineTableText, IndexText}

\* ddlContent.split("\n"): the texts of at most MaxLines lines, and the
\* examples.
ShortTexts == UNION {[1..n -> Lines] : n \in 0..MaxLines}

DdlTexts == ShortTexts \cup TextExamples

Init ==
    /\ ddlLines \in DdlTexts
    /\ heap = <<EmptyArray, EmptyObject>>
    /\ state = "NONE"
    /\ schemaName = Str("")
    /\ currentTable = Null
    /\ warnings = <<>>
    /\ heap0 = <<>>
    /\ input = Undefined
    /\ result = Undefined
    /\ again = Undefined
    /\ pc = "parse"
    /\ argName = <<>>
    /\ argExpected = "S.T"
    /\ returned = <<>>

Next ==
    \/ BlankLine
    \/ SchemaLine
    \/ SequenceLine
    \/ TableLine
    \/ CommentLineOutsideTable
    \/ PrimaryKeyLine
    \/ ForeignKeyLine
    \/ IndexLine
    \/ CommentLineInTable
    \/ CloseLine
    \/ ColumnLine
    \/ UnmatchedLine
    \/ Return

Spec == Init /\ [][Next]_vars

-----------------------------------------------------------------------------
(* Calls of schemaTableColumn *)

\* The components dotted names are made of.
NameWords == {"a", "b", "c"}

RECURSIVE DottedName(_)
\* The name components.join('.')
DottedName(components) ==
    IF Len(components) = 1
      THEN <<components[1]>>
      ELSE <<components[1], ".">> \o DottedName(Tail(components))

\* The components of the names passed.
NameComponents == UNION {[1..n -> NameWords] : n \in 1..MaxParts}

\* The expected formats the function documents, and the one its caller in
\* the comment branches passes.
Formats == {"S.T", "T.C", "S.T.C"}

InitName ==
    /\ argName \in {DottedName(components) : components \in NameComponents}
    /\ argExpected \in Formats
    /\ returned = <<>>
    /\ pc = "name"
    /\ heap = <<>>
    /\ heap0 = <<>>
    /\ input = Undefined
    /\ result = Undefined
    /\ again = Undefined
    /\ ddlLines = <<>>
    /\ state = "NONE"
    /\ schemaName = Str("")
    /\ currentTable = Null
    /\ warnings = <<>>

\* returned = schemaTableColumn(argName, argExpected)
CallSchemaTableColumn ==
    /\ pc = "name"
    /\ returned' = schemaTableColumn(argName, argExpected)
    /\ pc' = "named"
    /\ UNCHANGED <<heap, heap0, input, result, again, parseVars, argName,
                   argExpected>>

NextName == CallSchemaTableColumn

SpecName == InitName /\ [][NextName]_vars

-----------------------------------------------------------------------------
(* Callers of compressObj: a value is built, then compressed, then the      *)
(* result is compressed again.                                              *)

\* The scalars a built value holds: the three compressObj leaves out, and
\* three it keeps.
Scalars == {Str(""), Null, Undefined, Num("0"), Bool("false"), Str("x")}

\* The keys a built object holds.
Keys == {"a", "b"}

\* const data = {a: "", b: null, c: [0, "", null, {d: undefined, e: "value",
\* f: {}}, []], g: {h: {}, i: {j: null, k: [0, 2, {}, false]}},
\* l: [false, {}, 0], m: [], n: undefined}
DocExample ==
    << [kind |-> "object",
        keys |-> <<"a", "b", "c", "g", "l", "m", "n">>,
        elems |-> <<Str(""), Null, Ref(2), Ref(6), Ref(11), Ref(13),
                    Undefined>>],
       [kind |-> "array", keys |-> <<>>,
        elems |-> <<Num("0"), Str(""), Null, Ref(3), Ref(5)>>],
       [kind |-> "object", keys |-> <<"d", "e", "f">>,
        elems |-> <<Undefined, Str("value"), Ref(4)>>],
       EmptyObject,
       EmptyArray,
       [kind |-> "object", keys |-> <<"h", "i">>,
        elems |-> <<Ref(7), Ref(8)>>],
       EmptyObject,
       [kind |-> "object", keys |-> <<"j", "k">>,
        elems |-> <<Null, Ref(9)>>],
       [kind |-> "array", keys |-> <<>>,
        elems |-> <<Num("0"), Num("2"), Ref(10), Bool("false")>>],
       EmptyObject,
       [kind |-> "array", keys |-> <<>>,
        elems |-> <<Bool("false"), Ref(12), Num("0")>>],
       EmptyObject,
       EmptyArray >>

\* [{schema: "s", type: "table", name: "t", columns: [], constraints: [],
\* indexes: [], comments: {}}]
EmptyTableExample ==
    << [kind |-> "array", keys |-> <<>>, elems |-> <<Ref(2)>>],
       [kind |-> "object",
        keys |-> <<"schema", "type", "name", "columns", "constraints",
                   "indexes", "comments">>,
        elems |-> <<Str("s"), Str("table"), Str("t"), Ref(3), Ref(4), Ref(5),
                    Ref(6)>>],
       EmptyArray,
       EmptyArray,
       EmptyArray,
       EmptyObject >>

Examples == {DocExample, EmptyTableExample}

RECURSIVE SumLen(_, _)
SumLen(h, n) == IF n = 0 THEN 0 ELSE Len(h[n].elems) + SumLen(h, n - 1)

\* The number of elements and entries of all containers of the heap.
NodeCount(h) == SumLen(h, Len(h))

\* The container at address c gets one more element or entry x.
Add(h, c, k, x) == IF h[c].kind = "array" THEN Push(h, c, x) ELSE SetKey(h, c, k, x)

CanAdd(c, k) ==
    /\ pc = "build"
    /\ NodeCount(heap) < MaxNodes
    /\ c \in 1..Len(heap)
    /\ IF heap[c].kind = "object"
         THEN k \in Keys /\ IndexOf(heap[c].keys, k) = 0
         ELSE k = "a"

\* arr.push(s), obj[k] = s
AddScalar(c, k, s) ==
    /\ CanAdd(c, k)
    /\ heap' = Add(heap, c, k, s)
    /\ UNCHANGED <<heap0, input, result, again, pc, parseVars, nameVars>>

\* arr.push([]), arr.push({}), obj[k] = [], obj[k] = {}
AddContainer(c, k, new) ==
    /\ CanAdd(c, k)
    /\ heap' = Add(Append(heap, new), c, k, Ref(Len(heap) + 1))
    /\ UNCHANGED <<heap0, input, result, again, pc, parseVars, nameVars>>

\* result = compressObj(input)
Compress ==
    /\ pc = "build"
    /\ LET r == compressObj(heap, input)
       IN  /\ heap' = r.heap
           /\ result' = r.val
    /\ heap0' = heap
    /\ pc' = "compressed"
    /\ UNCHANGED <<input, again, parseVars, nameVars>>

\* again = compressObj(result)
CompressAgain ==
    /\ pc = "compressed"
    /\ LET r == compressObj(heap, result)
       IN  /\ heap' = r.heap
           /\ again' = r.val
    /\ heap0' = heap
    /\ pc' = "recompressed"
    /\ UNCHANGED <<input, result, parseVars, nameVars>>

\* The value to compress is a scalar, or a container that starts empty, or
\* one of the examples.
InitCompress ==
    /\ \/ heap = <<>> /\ input \in Scalars
       \/ heap \in {<<EmptyArray>>, <<EmptyObject>>} \cup Examples
          /\ input = Ref(1)
    /\ heap0 = <<>>
    /\ result = Undefined
    /\ again = Undefined
    /\ pc = "build"
    /\ ddlLines = <<>>
    /\ state = "NONE"
    /\ schemaName = Str("")
    /\ currentTable = Null
    /\ warnings = <<>>
    /\ argName = <<>>
    /\ argExpected = "S.T"
    /\ returned = <<>>

NextCompress ==
    \/ \E c \in 1..Len(heap), k \in Keys, s \in Scalars : AddScalar(c, k, s)
    \/ \E c \in 1..Len(heap), k \in Keys, new \in {EmptyArray, EmptyObject} :
          AddContainer(c, k, new)
    \/ Compress
    \/ CompressAgain

SpecCompress == InitCompress /\ [][NextCompress]_vars

-----------------------------------------------------------------------------
(* What the properties of compressObj are stated with *)

\* The value x of heap h as a tree: its kind, its text, and for a container
\* its keys and the trees of its elements.
RECURSIVE Tree(_, _)
Tree(h, x) ==
    IF x.t = "ref"
      THEN [t |-> h[x.a].kind, v |-> "", keys |-> h[x.a].keys,
            elems |-> [i \in 1..Len(h[x.a].elems) |->
                          Tree(h, h[x.a].elems[i])]]
      ELSE [t |-> x.t, v |-> x.v, keys |-> <<>>, elems |-> <<>>]

Removable == {Str(""), Null, Undefined}

\* x holds, at no depth, an empty string, null, undefined, [] or {}.
RECURSIVE Clean(_, _)
Clean(h, x) ==
    IF x.t = "ref"
      THEN /\ Len(h[x.a].elems) > 0
           /\ \A i \in 1..Len(h[x.a].elems) : Clean(h, h[x.a].elems[i])
      ELSE x \notin Removable

\* Every scalar in x, at every depth, is an empty string, null or undefined.
RECURSIVE AllRemovable(_, _)
AllRemovable(h, x) ==
    IF x.t = "ref"
      THEN \A i \in 1..Len(h[x.a].elems) : AllRemovable(h, h[x.a].elems[i])
      ELSE x \in Removable

\* The elements of the container x in order, each with its key ("" in an
\* array).
Entries(h, x) ==
    [i \in 1..Len(h[x.a].elems) |->
        <<IF h[x.a].kind = "object" THEN h[x.a].keys[i] ELSE "", h[x.a].elems[i]>>]

IsScalarEntry(e) == e[2].t # "ref"

IsKeptScalarEntry(e) == e[2].t # "ref" /\ e[2] \notin Removable

ScalarEntries(h, x) == SelectSeq(Entries(h, x), IsScalarEntry)

KeptScalarEntries(h, x) == SelectSeq(Entries(h, x), IsKeptScalarEntry)

Called == pc \in {"compressed", "recompressed"}

\* The argument and the value returned by the latest call.
Arg == IF pc = "recompressed" THEN result ELSE input

Ret == IF pc = "recompressed" THEN again ELSE result

-----------------------------------------------------------------------------
(* Properties of compressObj, checked under SpecCompress *)

\* C2: for a container c, compressObj(c) is undefined or a value that holds,
\* at no depth, an empty string, null, undefined, an empty array or an empty
\* object.
C2_ResultHasNoEmptyValue ==
    (Called /\ Arg.t = "ref") => (Ret = Undefined \/ Clean(heap, Ret))

\* A container was compressed to a new container: something was left out and
\* something was kept.
C2_Witness ==
    /\ pc = "compressed" /\ input.t = "ref"
    /\ result.t = "ref" /\ result # input
    /\ ~Clean(heap0, input)

\* C3: compressObj(c) is the reference c itself exactly when the container c
\* is not empty and holds nothing removable at any depth.
C3_SameReferenceIffNothingRemovable ==
    (Called /\ Arg.t = "ref") => (Ret = Arg <=> Clean(heap0, Arg))

\* A container that holds a nested container and nothing removable was
\* returned as it is.
C3_Witness ==
    /\ pc = "compressed" /\ input.t = "ref" /\ result = input
    /\ \E i \in 1..Len(heap0[input.a].elems) : heap0[input.a].elems[i].t = "ref"

\* C4: for a container c, compressObj(compressObj(c)) equals compressObj(c),
\* and it is undefined when compressObj(c) is undefined.
C4_Idempotent ==
    (pc = "recompressed" /\ input.t = "ref")
        => Tree(heap, again) = Tree(heap0, result)

\* The result of compressing a container with something removable in it was
\* compressed again.
C4_Witness ==
    /\ pc = "recompressed" /\ input.t = "ref"
    /\ result.t = "ref" /\ result # input

\* C5: compressObj(c) leaves c and every container nested in c as they were
\* before the call.
C5_InputNotMutated ==
    Called => Tree(heap, Arg) = Tree(heap0, Arg)

\* A call that left something out of a container, at the top and in a nested
\* container.
C5_Witness ==
    /\ pc = "compressed" /\ input.t = "ref"
    /\ result.t = "ref" /\ result # input
    /\ Len(heap[result.a].elems) < Len(heap0[input.a].elems)
    /\ \E i \in 1..Len(heap0[input.a].elems) :
          /\ heap0[input.a].elems[i].t = "ref"
          /\ ~Clean(heap0, heap0[input.a].elems[i])

\* C6: a container whose scalars are, at every depth, all removable (so also
\* an empty container) is compressed to undefined.
C6_TransitiveCollapse ==
    (Called /\ Arg.t = "ref" /\ AllRemovable(heap0, Arg)) => Ret = Undefined

\* [[], {a: ""}] was compressed.
C6_Witness ==
    /\ pc = "compressed"
    /\ input = Ref(1)
    /\ heap0 = << [kind |-> "array", keys |-> <<>>, elems |-> <<Ref(2), Ref(3)>>],
                  EmptyArray,
                  [kind |-> "object", keys |-> <<"a">>, elems |-> <<Str("")>>] >>
    /\ result = Undefined

\* C7: of the scalars of a container, compressObj leaves out exactly the empty
\* string, null and undefined; the others (0 and false too) are in the result
\* as they were, in their order and under their keys.
C7_ScalarsKeptInOrder ==
    (Called /\ Arg.t = "ref") =>
        IF Ret = Undefined
          THEN KeptScalarEntries(heap0, Arg) = <<>>
          ELSE ScalarEntries(heap, Ret) = KeptScalarEntries(heap0, Arg)

\* [false, {}, 0] was compressed to [false, 0].
C7_Witness ==
    /\ pc = "compressed"
    /\ input = Ref(1)
    /\ heap0 = << [kind |-> "array", keys |-> <<>>,
                   elems |-> <<Bool("false"), Ref(2), Num("0")>>],
                  EmptyObject >>
    /\ result.t = "ref"
    /\ heap[result.a].elems = <<Bool("false"), Num("0")>>

\* C8: a scalar passed to compressObj (the empty string, null and undefined
\* too) is returned as it is.
C8_ScalarPassesThrough ==
    (Called /\ Arg.t # "ref") => Ret = Arg

\* compressObj("") was called.
C8_Witness == pc = "compressed" /\ input = Str("")


\* {schema: "s", type: "table", name: "t"} alone in an array
CompactedEmptyTable ==
    [t |-> "array", v |-> "", keys |-> <<>>,
     elems |-> << [t |-> "object", v |-> "",
                   keys |-> <<"schema", "type", "name">>,
                   elems |-> <<Tree(<<>>, Str("s")), Tree(<<>>, Str("table")),
                               Tree(<<>>, Str("t"))>>] >>]

EmptyTableCompressed ==
    pc = "compressed" /\ input = Ref(1) /\ heap0 = EmptyTableExample

\* C9, as claimed: compressObj([{schema: "s", type: "table", name: "t",
\* columns: [], constraints: [], indexes: [], comments: {}}]) is undefined.
C9_EmptyTableCompactsAway ==
    EmptyTableCompressed => result = Undefined

\* C9, amended: compressObj([{schema: "s", type: "table", name: "t",
\* columns: [], constraints: [], indexes: [], comments: {}}]) is
\* [{schema: "s", type: "table", name: "t"}]: the four empty members are left
\* out, the record stays with its schema, type and name.
C9_EmptyTableKeepsItsName ==
    EmptyTableCompressed => Tree(heap, result) = CompactedEmptyTable

\* The record of a table with no columns, constraints, indexes or comments
\* was compressed.
C9_Witness == EmptyTableCompressed /\ result.t = "ref"

-----------------------------------------------------------------------------
(* Properties of parseDDL, checked under Spec *)

\* C1: parseDDL never raises: whatever the lines of the text are, comment
\* lines naming any table identifier included, no line makes it throw.
C1_ParseNeverRaises == pc # "threw"

\* The table and the column a comment line names, and its text: what is
\* between the first quote after IS and the last quote of the line.
CommentedTable ==
    Nth(schemaTableColumn(commentRegex(line).g1, "S.T.C"), TABLE)

CommentedColumn ==
    Nth(schemaTableColumn(commentRegex(line).g1, "S.T.C"), COLUMN)

CommentText == Str(Join(commentRegex(line).g2))

\* A CREATE TABLE line of a table of that name was processed.
Declared(h, name) == IndexOf(h[tableLookup.a].keys, name.v) # 0

\* The comment of a column in the record of the table of that name.
CommentOf(h, name, column) ==
    Get(h, Get(h, Get(h, tableLookup, name.v), "comments"), column.v)

\* The i-th record parseDDL collected and the i-th record it returns.
Collected(h, i) == h[jsonResult.a].elems[i]

Returned(h, r, i) == IF r.t = "ref" THEN Nth(h[r.a].elems, i - 1) ELSE Undefined

\* The record's comments are the same in the value returned.
SameComments(h, rec, h2, rec2) ==
    LET comments == Get(h, rec, "comments")
    IN  \A k \in 1..Len(h[comments.a].keys) :
            Get(h2, Get(h2, rec2, "comments"), h[comments.a].keys[k])
                = h[comments.a].elems[k]

\* C10: a comment line processed after the CREATE TABLE line of its table,
\* inside the table's definition or after its closing line, sets comments[c]
\* of the table's record to the comment text, and the value parseDDL returns
\* has the comments of every closed table.
C10_CommentSetsText ==
    [][/\ (CommentLineOutsideTable \/ CommentLineInTable)
              /\ Declared(heap, CommentedTable)
          => CommentOf(heap', CommentedTable, CommentedColumn) = CommentText
       /\ Return
          => \A i \in 1..Len(heap[jsonResult.a].elems) :
                Get(heap, Collected(heap, i), "type") = Str("table")
                  => SameComments(heap, Collected(heap, i),
                                  heap', Returned(heap', result', i))]_vars

\* The line being processed is a comment line.
AtCommentLine == AtLine /\ commentRegex(line).ok

\* C11: a comment line whose table no earlier CREATE TABLE line declared
\* produces a diagnostic, does not stop parseDDL and changes no record, so
\* its text is in no table's comments, also not in those of a table of that
\* name declared later.
C11_UnknownTableCommentWarns ==
    [][AtCommentLine /\ ~Declared(heap, CommentedTable)
         => /\ warnings' = Append(warnings, CommentedTable)
            /\ pc' = "parse"
            /\ ddlLines' = Tail(ddlLines)
            /\ heap' = heap]_vars

\* The heap parseDDL built: the one before the closing compressObj.
ParseHeap == IF pc = "returned" THEN heap0 ELSE heap

\* The addresses of the table records parseDDL created.
TableRecords ==
    {a \in 1..Len(ParseHeap) :
        /\ ParseHeap[a].kind = "object"
        /\ Get(ParseHeap, Ref(a), "type") = Str("table")}

\* The i-th record of the list is a table record.
IsTable(h, list, i) == Get(h, Nth(h[list.a].elems, i - 1), "type") = Str("table")

NameAt(h, list, i) == Get(h, Nth(h[list.a].elems, i - 1), "name")

\* C12, as claimed: no two table records of the list parseDDL returns
\* have the same name.
C12_TableNamesUnique ==
    pc = "returned" /\ result.t = "ref"
      => \A i, j \in 1..Len(heap[result.a].elems) :
            /\ i # j
            /\ IsTable(heap, result, i)
            /\ IsTable(heap, result, j)
            => NameAt(heap, result, i) # NameAt(heap, result, j)

\* C12, amended: names are unique as keys of the lookup only.  Every table
\* record created is declared in the lookup under its name, and the entry of
\* a name is the record the latest CREATE TABLE line with that name created;
\* the list may hold several records of one name.
C12_LookupHoldsLatestOfName ==
    \A a \in TableRecords :
        LET name == Get(ParseHeap, Ref(a), "name")
            entry == Get(ParseHeap, tableLookup, name.v)
        IN  /\ Declared(ParseHeap, name)
            /\ entry.t = "ref"
            /\ entry.a \in TableRecords
            /\ Get(ParseHeap, entry, "name") = name
            /\ entry.a >= a

\* parseDDL returned a list with two table records of the same name.
C12_Witness ==
    /\ pc = "returned"
    /\ result.t = "ref"
    /\ \E i, j \in 1..Len(heap[result.a].elems) :
          /\ i < j
          /\ IsTable(heap, result, i)
          /\ IsTable(heap, result, j)
          /\ NameAt(heap, result, i) = NameAt(heap, result, j)

\* The records parseDDL has emitted, in the order of the list.
Emitted(h) == h[jsonResult.a].elems

\* The line being processed is a CREATE SEQUENCE line outside a table
\* definition, or the closing line of a table definition.
EmitsSequence == AtLine /\ state = "NONE" /\ sequenceRegex(line).ok

EmitsTable == AtLine /\ state = "TABLE" /\ IsClose(line)

\* The list r of heap h2 has the records of the list in h, in their order:
\* the same types and names at the same places.
SameRecordsInOrder(list, h, r, h2) ==
    IF list = <<>>
      THEN r = Undefined
      ELSE /\ r.t = "ref"
           /\ Len(h2[r.a].elems) = Len(list)
           /\ \A i \in 1..Len(list) :
                 /\ Get(h2, h2[r.a].elems[i], "type") = Get(h, list[i], "type")
                 /\ Get(h2, h2[r.a].elems[i], "name") = Get(h, list[i], "name")

\* C13: the list is in document order of emission.  A CREATE SEQUENCE line
\* puts its record, and a closing line the record of its table, after every
\* record emitted before; no other line changes which records the list has
\* or their order; and the list parseDDL returns has them in that order.
C13_EmittedInDocumentOrder ==
    [][/\ EmitsSequence
          => \E a \in Len(heap) + 1..Len(heap') :
                /\ Emitted(heap') = Append(Emitted(heap), Ref(a))
                /\ Get(heap', Ref(a), "type") = Str("sequence")
       /\ EmitsTable
          => Emitted(heap') = Append(Emitted(heap), currentTable)
       /\ pc = "parse" /\ ~EmitsSequence /\ ~EmitsTable
          => Emitted(heap') = Emitted(heap)
       /\ pc' = "returned"
          => SameRecordsInOrder(Emitted(heap), heap, result', heap')]_vars

\* The i-th record of the list is a sequence record.
IsSequence(h, list, i) ==
    Get(h, Nth(h[list.a].elems, i - 1), "type") = Str("sequence")

\* parseDDL returned a list where a table record follows a sequence record.
C13_Witness ==
    /\ pc = "returned"
    /\ result.t = "ref"
    /\ \E i, j \in 1..Len(heap[result.a].elems) :
          i < j /\ IsSequence(heap, result, i) /\ IsTable(heap, result, j)

\* C14, as claimed: in the list parseDDL returns every sequence record
\* precedes every table record.
C14_SequencesBeforeTables ==
    pc = "returned" /\ result.t = "ref"
      => \A i, j \in 1..Len(heap[result.a].elems) :
            IsSequence(heap, result, i) /\ IsTable(heap, result, j) => i < j

\* C14, amended: sequence and table records are interleaved in the order of
\* their lines.  Records are created at increasing addresses, a sequence
\* record when its line is processed and a table record at its CREATE TABLE
\* line, so a sequence record precedes a table record exactly when it was
\* emitted before that table's CREATE TABLE line; and the list returned has
\* the kinds of records in the order parseDDL emitted them.
C14_SequenceBeforeTableIffEarlier ==
    /\ \A i, j \in 1..Len(Emitted(ParseHeap)) :
          IsSequence(ParseHeap, jsonResult, i) /\ IsTable(ParseHeap, jsonResult, j)
            => (i < j <=> Emitted(ParseHeap)[i].a < Emitted(ParseHeap)[j].a)
    /\ pc = "returned" /\ result.t = "ref"
         => \A i \in 1..Len(Emitted(heap0)) :
               /\ IsSequence(heap, result, i) <=> IsSequence(heap0, jsonResult, i)
               /\ IsTable(heap, result, i) <=> IsTable(heap0, jsonResult, i)

\* parseDDL returned a list where a sequence record follows a table record.
C14_Witness ==
    /\ pc = "returned"
    /\ result.t = "ref"
    /\ \E i, j \in 1..Len(heap[result.a].elems) :
          i < j /\ IsTable(heap, result, i) /\ IsSequence(heap, result, j)

\* The line being processed is a CREATE SCHEMA line, or a CREATE TABLE line,
\* outside a table definition.
AtSchemaLine == AtLine /\ state = "NONE" /\ schemaRegex(line).ok

AtTableLine == AtLine /\ state = "NONE" /\ tableRegex(line).ok

\* The addresses of the records that have a schema.
WithSchema(h) ==
    {a \in 1..Len(h) : h[a].kind = "object" /\ IndexOf(h[a].keys, "schema") # 0}

\* The schema of a record as compressObj leaves it: no field when empty.
Compacted(x) == IF x = Str("") THEN Undefined ELSE x

C16_TableSchemaIsNamePrefix ==
    [][AtTableLine
         => /\ Get(heap', currentTable', "schema") = Str(tableRegex(line).g1[1])
            /\ Get(heap', currentTable', "name") = Str(tableRegex(line).g1[3])]_vars

\* The line without its trailing comma, if it has one.
WithoutComma(l) ==
    IF At(l, Len(l)) = "," THEN SubSeq(l, 1, Len(l) - 1) ELSE l

\* A column definition line: a column name, a type and an optional NOT NULL,
\* with or without a trailing comma.
ColumnDefinition(l) ==
    LET body == WithoutComma(l)
    IN  /\ Len(body) \in {3, 7}
        /\ IsWord(body[1])
        /\ Upper(body[1]) \notin {"CREATE", "CONSTRAINT", "COMMENT"}
        /\ body[2] = " "
        /\ IsWord(body[3])
        /\ Len(body) = 7 => SubSeq(body, 4, 7) = <<" ", "NOT", " ", "NULL">>

\* The columns of the table being defined.
Columns(h) == h[Get(h, currentTable, "columns").a].elems

\* C17: every column definition line inside a table definition adds exactly
\* one entry, of the line's column name and type, at the end of the table's
\* columns; also the last column of the table, which has no trailing comma.
C17_ColumnLineYieldsEntry ==
    [][AtLine /\ state = "TABLE" /\ ColumnDefinition(line)
         => /\ Len(Columns(heap')) = Len(Columns(heap)) + 1
            /\ SubSeq(Columns(heap'), 1, Len(Columns(heap))) = Columns(heap)
            /\ Get(heap', Columns(heap')[Len(Columns(heap'))], "name")
                 = Str(line[1])
            /\ Get(heap', Columns(heap')[Len(Columns(heap'))], "type")
                 = Str(line[3])]_vars

\* The line with its keywords in upper case.
UpperLine(l) == [i \in 1..Len(l) |-> Upper(l[i])]

\* The line is of the same statement shapes as its upper-case form.
SameShape(l) ==
    /\ schemaRegex(l).ok = schemaRegex(UpperLine(l)).ok
    /\ sequenceRegex(l).ok = sequenceRegex(UpperLine(l)).ok
    /\ tableRegex(l).ok = tableRegex(UpperLine(l)).ok
    /\ primaryKeyRegex(l).ok = primaryKeyRegex(UpperLine(l)).ok
    /\ foreignKeyRegex(l).ok = foreignKeyRegex(UpperLine(l)).ok
    /\ indexRegex(l).ok = indexRegex(UpperLine(l)).ok
    /\ commentRegex(l).ok = commentRegex(UpperLine(l)).ok
    /\ columnRegex(l).ok = columnRegex(UpperLine(l)).ok

\* The constraints of the column added last to the table being defined.
LastColumnConstraints(h) ==
    h[Get(h, Columns(h)[Len(Columns(h))], "constraints").a].elems

\* C18: keywords are recognized whatever their letter case.  A line is of
\* the statement shapes of its upper-case form, and a column line gives the
\* column the constraint NOT NULL exactly when its upper-case form does, so
\* `not null` in lower or mixed case counts as NOT NULL.
C18_KeywordCaseIgnored ==
    [][/\ AtLine => SameShape(line)
       /\ ColumnLine
          => LastColumnConstraints(heap')
               = IF isNotNull(columnRegex(UpperLine(line)))
                   THEN <<Str("NOT NULL")>>
                   ELSE <<>>]_vars

\* The column records of the i-th record of the list, none if it has no
\* columns field.
ColumnsOf(h, list, i) ==
    LET columns == Get(h, Nth(h[list.a].elems, i - 1), "columns")
    IN  IF columns.t = "ref" THEN h[columns.a].elems ELSE <<>>

\* The field of the record is an empty list or an empty mapping.
EmptyField(h, rec, field) ==
    /\ Get(h, rec, field).t = "ref"
    /\ h[Get(h, rec, field).a].elems = <<>>

FirstIndex(l, tok) == CHOOSE i \in 1..Len(l) : l[i] = tok /\ \A j \in 1..i - 1 : l[j] # tok

\* The words of the line in order.
Words(l) == SelectSeq(l, IsWord)

\* The names a constraint line lists between its parentheses, and the text
\* that follows the closing parenthesis.
ListedNames(l) ==
    LET names == Words(SubSeq(l, FirstIndex(l, "(") + 1, FirstIndex(l, ")") - 1))
    IN  [i \in 1..Len(names) |-> Str(names[i])]

AfterList(l) == Str(Join(SubSeq(l, FirstIndex(l, ")") + 1, Len(l))))

\* The line being processed is a primary-key or a foreign-key line inside a
\* table definition.
AtPrimaryKeyLine == AtLine /\ state = "TABLE" /\ primaryKeyRegex(line).ok

AtForeignKeyLine == AtLine /\ state = "TABLE" /\ foreignKeyRegex(line).ok

\* The constraints of the table being defined, and the one added last.
Constraints(h) == h[Get(h, currentTable, "constraints").a].elems

LastConstraint(h) == Constraints(h)[Len(Constraints(h))]

\* The step adds one constraint after those the table has and changes
\* nothing else of what exists.
AddsOneConstraint ==
    /\ Len(Constraints(heap')) = Len(Constraints(heap)) + 1
    /\ SubSeq(Constraints(heap'), 1, Len(Constraints(heap))) = Constraints(heap)
    /\ LastConstraint(heap').a > Len(heap)
    /\ \A a \in 1..Len(heap) :
          a # Get(heap, currentTable, "constraints").a => heap'[a] = heap[a]
    /\ UNCHANGED <<state, currentTable, schemaName, pc>>

\* C20: inside a table definition a line CONSTRAINT n PRIMARY KEY (c1, ...,
\* ck) adds exactly one constraint, of type primary_key with index name n and
\* columns c1, ..., ck in written order without surrounding blanks; a line
\* CONSTRAINT n FOREIGN KEY (c1, ..., ck) rule adds exactly one of type
\* foreign_key with the same fields and the rule text as written; each goes
\* after the constraints the table has and nothing else of the table changes.
C20_KeyLineAddsConstraint ==
    [][/\ AtPrimaryKeyLine
          => /\ AddsOneConstraint
             /\ Get(heap', LastConstraint(heap'), "type") = Str("primary_key")
             /\ Get(heap', LastConstraint(heap'), "index_name")
                  = Str(Words(line)[2])
             /\ heap'[Get(heap', LastConstraint(heap'), "columns").a].elems
                  = ListedNames(line)
             /\ Get(heap', LastConstraint(heap'), "rule") = Undefined
       /\ AtForeignKeyLine
          => /\ AddsOneConstraint
             /\ Get(heap', LastConstraint(heap'), "type") = Str("foreign_key")
             /\ Get(heap', LastConstraint(heap'), "index_name")
                  = Str(Words(line)[2])
             /\ heap'[Get(heap', LastConstraint(heap'), "columns").a].elems
                  = ListedNames(line)
             /\ Get(heap', LastConstraint(heap'), "rule") = AfterList(line)]_vars

\* The table being defined has a primary key on the columns a and b followed
\* by a foreign key with a rule.
C20_Witness ==
    /\ state = "TABLE"
    /\ Len(Constraints(heap)) >= 2
    /\ Get(heap, Constraints(heap)[1], "type") = Str("primary_key")
    /\ heap[Get(heap, Constraints(heap)[1], "columns").a].elems
         = <<Str("a"), Str("b")>>
    /\ Get(heap, Constraints(heap)[2], "type") = Str("foreign_key")
    /\ Get(heap, Constraints(heap)[2], "rule") = Str(" REFERENCES s.u(id)")

\* The text of a column line after the column's type.
AfterType(l) ==
    columnRegex(l).g3 \o (IF columnRegex(l).has4 THEN columnRegex(l).g4 ELSE <<>>)

\* The text after the DEFAULT keyword, up to a closing NULL or NOT NULL.
AfterDefault(l) == Str(Join(Trim(RemoveFirst(columnRegex(l).g3, "DEFAULT"))))

\* The default value of the column added last to the table being defined.
LastColumnDefault(h) == Get(h, Columns(h)[Len(Columns(h))], "defaultVal")

\* C21: a column line gives the column the constraint NOT NULL exactly when
\* NOT NULL occurs in the text after its type; the column gets a default only
\* when it is not NOT NULL, and then the text after the DEFAULT keyword; so
\* no column has both a NOT NULL constraint and a default.
C21_NotNullOrDefault ==
    [][ColumnLine
         => /\ LastColumnConstraints(heap')
                 = IF HasNotNull(AfterType(line))
                     THEN <<Str("NOT NULL")>>
                     ELSE <<>>
            /\ LastColumnDefault(heap')
                 = IF HasNotNull(AfterType(line))
                     THEN Undefined
                     ELSE AfterDefault(line)]_vars

-----------------------------------------------------------------------------
(* Properties of schemaTableColumn, checked under SpecName *)

\* The components of the name passed, as strings.
Components == Texts(SplitOn(argName, "."))

\* The number of components of the expected shape.
Arity == IF argExpected = "S.T" THEN 2 ELSE 3

\* C22: schemaTableColumn right-aligns short names.  A name with fewer
\* components than the expected shape S.T or S.T.C has gets its components
\* at the last places of the shape and an empty schema: a with S.T gives
\* schema "" and table a, a.b with S.T.C gives schema "", table a and column
\* b.  A name of three components gives them as schema, table and column
\* whatever the expected shape is.
C22_ShortNamesRightAligned ==
    pc = "named" /\ argExpected \in {"S.T", "S.T.C"}
      => /\ Len(Components) < Arity
            => /\ Nth(returned, SCHEMA) = Str("")
               /\ \A i \in 1..Len(Components) :
                     Nth(returned, Arity - Len(Components) + i - 1)
                       = Components[i]
         /\ Len(Components) = 3 => returned = Components

-----------------------------------------------------------------------------
(* Further properties of parseDDL, checked under Spec *)

\* The state is NONE or TABLE, and there is a current table exactly in
\* TABLE.
StateMatchesCurrentTable ==
    /\ state \in {"NONE", "TABLE"}
    /\ currentTable # Null <=> state = "TABLE"
    /\ currentTable # Null => currentTable.t = "ref"

\* C23: at the start and after every line the state is NONE or TABLE and
\* currentTable is non-null exactly in TABLE: a CREATE TABLE line outside a
\* table definition sets it to the new record and enters TABLE, and the
\* closing line appends that record to the list, nulls it and returns to
\* NONE in one step.  So no line is processed in a state other than NONE and
\* TABLE, and 'Unknown state' is never thrown.
C23_StateAndCurrentTable ==
    /\ StateMatchesCurrentTable
    /\ [][/\ StateMatchesCurrentTable'
          /\ AtTableLine
             => /\ state' = "TABLE"
                /\ currentTable'.t = "ref"
                /\ currentTable'.a > Len(heap)
          /\ EmitsTable
             => /\ state' = "NONE"
                /\ currentTable' = Null
                /\ Emitted(heap') = Append(Emitted(heap), currentTable)
          /\ AtLine /\ ~AtTableLine /\ ~EmitsTable
             => UNCHANGED <<state, currentTable>>]_vars

\* A table was defined and closed, and parseDDL is outside a table definition
\* again.
C23_Witness ==
    /\ pc = "parse"
    /\ state = "NONE"
    /\ currentTable = Null
    /\ \E i \in 1..Len(Emitted(heap)) : IsTable(heap, jsonResult, i)

\* A CREATE SCHEMA, CREATE SEQUENCE or CREATE TABLE line.
CreateLine(l) == schemaRegex(l).ok \/ sequenceRegex(l).ok \/ tableRegex(l).ok

\* The number of table records in the list.
TableCount(h) ==
    Cardinality({i \in 1..Len(Emitted(h)) : IsTable(h, jsonResult, i)})

\* The list has the record at address a.
Listed(h, a) == \E i \in 1..Len(Emitted(h)) : Emitted(h)[i] = a

\* C24: a table record enters the list at its closing line and only there,
\* once: the closing line appends the current table, which the list did not
\* have, no other line changes the number of table records, and the table
\* still open at the end of the text is not in the list returned.  While a
\* table is open a CREATE SCHEMA, CREATE SEQUENCE or CREATE TABLE line is
\* ignored: it creates no record, and leaves the active schema, the state and
\* the current table as they were.
C24_TableEmittedAtClose ==
    [][/\ EmitsTable
          => /\ ~Listed(heap, currentTable)
             /\ Emitted(heap') = Append(Emitted(heap), currentTable)
             /\ TableCount(heap') = TableCount(heap) + 1
       /\ AtLine /\ ~EmitsTable => TableCount(heap') = TableCount(heap)
       /\ AtLine /\ state = "TABLE" /\ CreateLine(line)
          => /\ heap' = heap
             /\ UNCHANGED <<state, schemaName, currentTable>>
       /\ pc' = "returned"
          => /\ state = "TABLE" => ~Listed(heap, currentTable)
             /\ SameRecordsInOrder(Emitted(heap), heap, result', heap')]_vars

\* The line being processed is a CREATE [UNIQUE] INDEX line.
AtIndexLine == AtLine /\ indexRegex(line).ok

\* The line has the word UNIQUE after CREATE.
HasUnique(l) == Upper(Words(l)[2]) = "UNIQUE"

\* The name the line gives the index: the word after INDEX.
IndexName(l) == IF HasUnique(l) THEN Words(l)[4] ELSE Words(l)[3]

\* The table the line's ON clause names: the last word but for the listed
\* columns.
OnTable(l) == Words(l)[IF HasUnique(l) THEN 7 ELSE 6]

\* The indexes of the table being defined.
Indexes(h) == h[Get(h, currentTable, "indexes").a].elems

LastIndex(h) == Indexes(h)[Len(Indexes(h))]

\* C25: a CREATE [UNIQUE] INDEX n ON s.t line is recorded only inside a table
\* definition.  There it adds to the table being defined, whatever table the
\* line names, one index after those it has, with name n, type unique if the
\* line has UNIQUE and btree if not, and no columns, and changes nothing else;
\* outside a table definition it is ignored and changes nothing.
C25_IndexLineAddsIndex ==
    [][/\ AtIndexLine /\ state = "TABLE"
          => /\ Len(Indexes(heap')) = Len(Indexes(heap)) + 1
             /\ SubSeq(Indexes(heap'), 1, Len(Indexes(heap))) = Indexes(heap)
             /\ LastIndex(heap').a > Len(heap)
             /\ Get(heap', LastIndex(heap'), "name") = Str(IndexName(line))
             /\ Get(heap', LastIndex(heap'), "type")
                  = IF HasUnique(line) THEN Str("unique") ELSE Str("btree")
             /\ heap'[Get(heap', LastIndex(heap'), "columns").a]
                  = EmptyArray
             /\ \A a \in 1..Len(heap) :
                   a # Get(heap, currentTable, "indexes").a
                     => heap'[a] = heap[a]
             /\ UNCHANGED <<state, currentTable, schemaName, pc>>
       /\ AtIndexLine /\ state = "NONE"
          => /\ heap' = heap
             /\ UNCHANGED <<state, currentTable, schemaName, pc, warnings>>
       /\ AtLine /\ ~AtIndexLine /\ state = "TABLE"
          => Indexes(heap') = Indexes(heap)]_vars

\* The table new_ops.person was closed with one index, the unique index t_idx
\* that a line naming s.t gave it, and the index line after its closing line
\* has been processed.
C25_Witness ==
    /\ pc = "parse"
    /\ state = "NONE"
    /\ ddlLines = <<>>
    /\ Len(Emitted(heap)) = 1
    /\ LET table == Emitted(heap)[1]
           indexes == heap[Get(heap, table, "indexes").a].elems
       IN  /\ Get(heap, table, "name") = Str("person")
           /\ Len(indexes) = 1
           /\ Get(heap, indexes[1], "name") = Str("t_idx")
           /\ Get(heap, indexes[1], "type") = Str("unique")
           /\ OnTable(LUniqueIndex) = "t"

\* The text of the line before its first "--".
BeforeComment(rawLine) ==
    IF \E i \in 1..Len(rawLine) : rawLine[i] = "--"
      THEN SubSeq(rawLine, 1, FirstIndex(rawLine, "--") - 1)
      ELSE rawLine

\* The line being processed has only blanks before its comment.
AtBlankLine ==
    /\ pc = "parse"
    /\ ddlLines # <<>>
    /\ \A i \in 1..Len(BeforeComment(Head(ddlLines))) :
          BeforeComment(Head(ddlLines))[i] = " "

\* The line being processed matches none of the patterns of the state.
AtUnmatchedLine ==
    /\ AtLine
    /\ IF state = "NONE"
         THEN ~(\/ schemaRegex(line).ok
                \/ sequenceRegex(line).ok
                \/ tableRegex(line).ok
                \/ commentRegex(line).ok)
         ELSE ~(\/ primaryKeyRegex(line).ok
                \/ foreignKeyRegex(line).ok
                \/ indexRegex(line).ok
                \/ commentRegex(line).ok
                \/ IsClose(line)
                \/ columnRegex(line).ok)

TablesNamed(h, name) ==
    {a \in 1..Len(h) :
        /\ h[a].kind = "object"
        /\ Get(h, Ref(a), "type") = Str("table")
        /\ Get(h, Ref(a), "name") = name}

LastNamed(h, name) ==
    CHOOSE a \in TablesNamed(h, name) : \A b \in TablesNamed(h, name) : b <= a

\* The name of the table the CREATE TABLE line opens: the word before the
\* parenthesis.
OpenedTable(l) == Str(Words(l)[4])

\* C27: the lookup keeps the last table of a name.  A CREATE TABLE line that
\* opens a table of a name already registered raises no error and changes no
\* record that exists, so the earlier table stays in the list; and a comment
\* line that names a table with records sets the comment of its column in the
\* comments of the record opened last under that name and changes nothing
\* else: not the comments of an earlier table of the name.
C27_CommentsGoToLastOpened ==
    [][/\ AtTableLine /\ Declared(heap, OpenedTable(line))
          => /\ pc' = "parse"
             /\ state' = "TABLE"
             /\ currentTable'.a = LastNamed(heap', OpenedTable(line))
             /\ currentTable'.a > Len(heap)
             /\ \A a \in 1..Len(heap) :
                   a # tableLookup.a => heap'[a] = heap[a]
       /\ AtCommentLine /\ TablesNamed(heap, CommentedTable) # {}
          => LET last == LastNamed(heap, CommentedTable)
                 comments == Get(heap, Ref(last), "comments")
             IN  /\ pc' = "parse"
                 /\ Get(heap', comments, CommentedColumn.v)
                      \in {CommentText,
                           Str(Join(Trim(commentRegex(line).g2)))}
                 /\ \A a \in 1..Len(heap') :
                       a # comments.a => heap'[a] = heap[a]
                 /\ Len(heap') = Len(heap)]_vars

\* Two tables named t were closed; the comment processed between them is the
\* only one the first has, and the two comments processed after the second
\* was opened are in the comments of the second.
C27_Witness ==
    /\ pc = "parse"
    /\ ddlLines = <<>>
    /\ Len(Emitted(heap)) = 2
    /\ LET first == Emitted(heap)[1]
           second == Emitted(heap)[2]
       IN  /\ Get(heap, first, "name") = Str("t")
           /\ Get(heap, second, "name") = Str("t")
           /\ heap[Get(heap, first, "comments").a].keys = <<"name">>
           /\ heap[Get(heap, second, "comments").a].keys = <<"id", "name">>

=============================================================================
